---- MODULE Spec2Model ----
(***************************************************************************)
(* Browser-side behaviour layer of the notes/reminders application.        *)
(*                                                                         *)
(*   src/static/script.js   the page script with the /set_timezone         *)
(*                          startup, the stylesheet themes and the         *)
(*                          streaming (EventSource) reminder flow          *)
(*   src/unnamed/part_000   the page script with the view toggle, the      *)
(*                          polling reminder flow and the file uploads     *)
(*                                                                         *)
(* Every handler of the scripts is one action: a JavaScript task runs to   *)
(* completion, so a handler's synchronous code is atomic, and each         *)
(* network response or timer is a later task of its own.  Timers are       *)
(* pending flags/counters that may fire at any later moment.               *)
(*                                                                         *)
(* Specifications:                                                         *)
(*   ScriptSpec / FairScript   startup and themes of script.js             *)
(*   StreamSpec                streaming reminders and popups (script.js)  *)
(*   PollSpec                  polling reminders and popups (part_000)     *)
(*   ToggleSpec                view toggle and search (part_000)           *)
(*   UploadSpec                file-attachment-area uploads (part_000)     *)
(***************************************************************************)
EXTENDS Integers, Sequences, FiniteSets

VARIABLES
    \* ---- script.js: DOMContentLoaded handler and initTheme
    pc,             \* position of the async DOMContentLoaded handler
    tzReq,          \* the POST /set_timezone request
    searchInit,     \* initSearch has run
    themeInit,      \* "none" | "skipped" (element missing) | "wired"
    notifInit,      \* initNotifications has run
    langState,      \* initLanguage: "none" | "loading" | "applied" | "failed" | "threw"
    themeElems,     \* #theme-link and #theme-switch are both in the page
    uaTouch,        \* navigator.userAgent matches the mobile pattern
    viewport,       \* <<window.innerWidth, window.innerHeight>>
    themeStored,    \* localStorage "themeName" (Absent when not set)
    currentTheme,   \* the closure variable currentTheme of initTheme
    themeHref,      \* themeLink.href (as assigned)
    appliedMobile,  \* what isMobileDevice() returned in the last applyTheme
    \* ---- reminder notifications (both variants)
    variant,        \* "stream" (script.js) | "poll" (part_000)
    esSupported,    \* window.EventSource exists
    sources,        \* readyState of every EventSource created, in order
    reconnectTimers,\* pending setTimeout(setupNotifications, 5000)
    notifPerm,      \* Notification.permission, or "unsupported"
    permAsked,      \* Notification.requestPermission() is awaiting the user
    deliveries,     \* one record per showPopup call
    remInFlight,    \* fire-and-forget POST /reminded/<id> not yet at the server
    serverReminded, \* ids the backend has processed a /reminded for
    notifs,         \* browser notifications created, per reminder id
    pollInterval,   \* setInterval(checkForReminders, 60000) is installed
    pollsIssued,    \* checkForReminders calls so far
    failedAt,       \* pollsIssued when a poll last failed, 0 if none has (history)
    pollReqs,       \* GET /get_reminders requests not yet at the server
    pollResps,      \* responses of /get_reminders not yet handled
    \* ---- part_000: view toggle and search
    toggleElems,    \* #toggle-notes-btn is in the page (the containers are)
    searchElem,     \* #search is in the page
    showingCompleted,
    activeDisplay,  \* activeContainer.style.display
    completedDisplay,
    toggleText,     \* toggleBtn.textContent
    searchValue,    \* value of the #search input
    clicks,         \* number of clicks on the toggle button so far
    lastEvent,      \* the handler that ran last
    searchReqs,     \* /search_notes requests in flight
    activeHtml,     \* query whose result activeContainer.innerHTML shows
    completedHtml,
    searchHist,     \* the newest search request and how the responses came (history)
    \* ---- part_000: file-attachment-area uploads
    progressDisplay,\* style.display of upload-progress-N, per note
    progressWidth,  \* style.width of its .progress-fill
    progressText,   \* textContent of its .progress-text
    uploading,      \* POST /upload_file/N requests in flight, per note
    hideTimers,     \* pending hide timers, per note
    attached,       \* file items appended to attached-files-N
    uploadsStarted  \* uploads started so far

scriptVars == <<pc, tzReq, searchInit, themeInit, notifInit, langState,
                themeElems, uaTouch, viewport, themeStored, currentTheme,
                themeHref, appliedMobile>>
themeVars  == <<themeStored, currentTheme, themeHref, appliedMobile>>
notifVars  == <<variant, esSupported, sources, reconnectTimers, notifPerm,
                permAsked, deliveries, remInFlight, serverReminded, notifs,
                pollInterval, pollsIssued, failedAt, pollReqs, pollResps>>
toggleVars == <<toggleElems, searchElem, showingCompleted, activeDisplay, completedDisplay,
                toggleText, searchValue, clicks, lastEvent, searchReqs,
                activeHtml, completedHtml, searchHist>>
uploadVars == <<progressDisplay, progressWidth, progressText, uploading,
                hideTimers, attached, uploadsStarted>>
vars == <<scriptVars, notifVars, toggleVars, uploadVars>>

(***************************************************************************)
(* Bounds of the model.                                                    *)
(***************************************************************************)
MaxSources == 3        \* EventSources created over one page life
MaxDeliveries == 2     \* showPopup calls over one page life
MaxClicks == 2         \* Mark-done clicks on one popup
MaxPolls == 2          \* /get_reminders requests over one page life
MaxBatch == 2          \* reminders in one message or one poll response
NumReminders == 1      \* reminders the backend knows
MaxToggleClicks == 4   \* clicks on the view toggle
MaxSearches == 2       \* /search_notes requests in flight
MaxUploads == 3        \* uploads started over one page life

Absent == "<null>"     \* localStorage.getItem(...) === null

ReminderIds == 1..NumReminders   \* reminder (note) ids the backend knows
Notes == {1, 2}        \* notes with a file-attachment area
Queries == {"", "a", "b"}   \* texts typed into the search box

PermStates == {"unsupported", "default", "granted", "denied"}

\* The reminder flow before initNotifications has run.
NotifIdle(v) ==
    /\ variant = v
    /\ esSupported \in BOOLEAN
    /\ notifPerm \in PermStates
    /\ permAsked = FALSE
    /\ sources = << >>
    /\ reconnectTimers = 0
    /\ deliveries = << >>
    /\ remInFlight = [i \in ReminderIds |-> 0]
    /\ serverReminded = {}
    /\ notifs = [i \in ReminderIds |-> 0]
    /\ pollInterval = FALSE
    /\ pollsIssued = 0
    /\ failedAt = 0
    /\ pollReqs = 0
    /\ pollResps = << >>

\* script.js before DOMContentLoaded.
ScriptIdle ==
    /\ pc = "loading"
    /\ tzReq = "none"
    /\ searchInit = FALSE
    /\ themeInit = "none"
    /\ notifInit = FALSE
    /\ langState = "none"
    /\ currentTheme = Absent
    /\ themeHref = ""
    /\ appliedMobile = FALSE

\* What a notes container shows before any search: the server's rendering.
NoHtml == [q |-> "server-rendered", completed |-> FALSE]

\* History of the search box: the newest request, whether its response is
\* still awaited, whether that response was OK, and whether every response
\* so far was handled in the order the requests were sent.
NoHistory == [last |-> NoHtml, pending |-> FALSE, ok |-> FALSE, fifo |-> TRUE]

\* The view toggle and the search box before any event.
ToggleIdle ==
    /\ showingCompleted = FALSE
    /\ toggleText = "server-rendered"
    /\ searchValue = ""
    /\ clicks = 0
    /\ lastEvent = "none"
    /\ searchReqs = << >>
    /\ activeHtml = NoHtml
    /\ completedHtml = NoHtml
    /\ searchHist = NoHistory

\* The text of a search response in a container.
containerHtml(completed) == IF completed THEN completedHtml ELSE activeHtml

\* The upload areas before any upload (the page renders the progress
\* containers hidden).
UploadIdle ==
    /\ progressDisplay = [n \in Notes |-> "none"]
    /\ progressWidth = [n \in Notes |-> "0%"]
    /\ progressText = [n \in Notes |-> ""]
    /\ uploading = [n \in Notes |-> 0]
    /\ hideTimers = [n \in Notes |-> 0]
    /\ attached = [n \in Notes |-> 0]
    /\ uploadsStarted = 0

(***************************************************************************)
(* script.js: initTheme                                                    *)
(***************************************************************************)
themes ==
    [default |-> [desktop |-> "/static/style1.css", mobile |-> "/static/style1_mobile.css"],
     matrix  |-> [desktop |-> "/static/style2.css", mobile |-> "/static/style2_mobile.css"],
     light   |-> [desktop |-> "/static/style3.css", mobile |-> "/static/style3_mobile.css"]]

ThemeNames == DOMAIN themes

\* themes is an object literal: a lookup also finds what it inherits from
\* Object.prototype, and those values are truthy.
ObjectPrototypeKeys ==
    {"__defineGetter__", "__defineSetter__", "__lookupGetter__",
     "__lookupSetter__", "__proto__", "constructor", "hasOwnProperty",
     "isPrototypeOf", "propertyIsEnumerable", "toLocaleString", "toString",
     "valueOf"}

themeOrder == <<"matrix", "light">>

\* What localStorage "themeName" may hold when the page loads.
StoredThemeValues ==
    {Absent, "", "default", "matrix", "light", "foo", "constructor", "toString",
     "__proto__"}

\* Window sizes <<innerWidth, innerHeight>>; 700/1000 is exactly the 0.7 limit.
Viewports == {<<360, 640>>, <<700, 1000>>, <<1280, 720>>}

\* aspectRatio < 0.7, with aspectRatio = innerWidth / innerHeight
isMobileDevice(vp) == uaTouch \/ (vp[1] * 10 < 7 * vp[2])

\* !themes[name]
ThemeMissing(name) == name \notin (ThemeNames \cup ObjectPrototypeKeys)

\* themes[name].desktop / themes[name].mobile; an inherited value has neither
\* property, and assigning undefined to href yields the text "undefined".
ThemeFile(name, kind) ==
    IF name \in ThemeNames THEN themes[name][kind] ELSE "undefined"

\* themeOrder.indexOf(x), 0-based, -1 when absent
IndexOf(x) ==
    IF \E i \in DOMAIN themeOrder : themeOrder[i] = x
    THEN (CHOOSE i \in DOMAIN themeOrder : themeOrder[i] = x) - 1
    ELSE -1

applyTheme(name, vp) ==
    LET n == IF ThemeMissing(name) THEN "matrix" ELSE name
        m == isMobileDevice(vp)
    IN  /\ themeHref' = ThemeFile(n, IF m THEN "mobile" ELSE "desktop")
        /\ themeStored' = n
        /\ appliedMobile' = m

\* initTheme(): returns early when an element is missing; otherwise loads the
\* saved theme, applies it and wires the click and resize listeners.
initTheme ==
    IF themeElems
    THEN /\ themeInit' = "wired"
         /\ currentTheme' = (IF themeStored \in {Absent, ""} THEN "matrix" ELSE themeStored)
         /\ applyTheme(currentTheme', viewport)
    ELSE /\ themeInit' = "skipped"
         /\ UNCHANGED themeVars

\* click on #theme-switch
ThemeClick ==
    /\ themeInit = "wired"
    /\ LET next == (IndexOf(currentTheme) + 1) % Len(themeOrder)
       IN  currentTheme' = themeOrder[next + 1]
    /\ applyTheme(currentTheme', viewport)
    /\ UNCHANGED <<pc, tzReq, searchInit, themeInit, notifInit, langState,
                   themeElems, uaTouch, viewport>>
    /\ UNCHANGED <<notifVars, toggleVars, uploadVars>>

\* window resize / rotation to the size v
Resize(v) ==
    /\ v # viewport
    /\ viewport' = v
    /\ IF themeInit = "wired"
       THEN applyTheme(currentTheme, v) /\ UNCHANGED currentTheme
       ELSE UNCHANGED themeVars
    /\ UNCHANGED <<pc, tzReq, searchInit, themeInit, notifInit, langState,
                   themeElems, uaTouch>>
    /\ UNCHANGED <<notifVars, toggleVars, uploadVars>>

(***************************************************************************)
(* script.js: initNotifications (streaming variant), connection part       *)
(***************************************************************************)
\* requestNotificationPermission(): asks only when the permission is "default"
requestNotificationPermission ==
    permAsked' = (permAsked \/ notifPerm = "default")

\* setupNotifications(): new EventSource('/notifications')
setupNotifications ==
    sources' = Append(sources, "connecting")

\* initNotifications() of script.js
initNotificationsStream ==
    /\ notifInit' = TRUE
    /\ IF esSupported
       THEN requestNotificationPermission /\ setupNotifications
       ELSE UNCHANGED <<permAsked, sources>>
    /\ UNCHANGED <<variant, esSupported, reconnectTimers, notifPerm, deliveries,
                   remInFlight, serverReminded, notifs, pollInterval, pollsIssued, failedAt,
                   pollReqs, pollResps>>

(***************************************************************************)
(* script.js: the DOMContentLoaded handler                                 *)
(***************************************************************************)
TzOutcomes == {"ok", "http_error", "network_error", "bad_json"}

\* initSearch(); initTheme(); initNotifications(); await initLanguage() up to
\* its first await (the fetch of translations.json).
RunInits ==
    /\ searchInit' = TRUE
    /\ initTheme
    /\ initNotificationsStream
    /\ langState' = "loading"
    /\ pc' = "await_lang"

\* Mutant of the handler: sendTimezoneToServer() is called without await.
DOMContentLoadedNoAwait ==
    /\ pc = "loading"
    /\ tzReq' = "inflight"
    /\ RunInits
    /\ UNCHANGED <<themeElems, uaTouch, viewport>>
    /\ UNCHANGED <<toggleVars, uploadVars>>

\* DOMContentLoaded: sendTimezoneToServer() issues the POST, the handler
\* suspends at the await.
DOMContentLoaded ==
    /\ pc = "loading"
    /\ tzReq' = "inflight"
    /\ pc' = "await_tz"
    /\ UNCHANGED <<searchInit, themeInit, notifInit, langState, themeElems,
                   uaTouch, viewport, themeVars>>
    /\ UNCHANGED <<notifVars, toggleVars, uploadVars>>

\* The /set_timezone request settles: OK with a JSON body, a non-OK status, a
\* network error, or an OK response whose body is not JSON.
TzSettle(o) ==
    /\ tzReq = "inflight"
    /\ tzReq' = o
    /\ UNCHANGED <<pc, searchInit, themeInit, notifInit, langState, themeElems,
                   uaTouch, viewport, themeVars>>
    /\ UNCHANGED <<notifVars, toggleVars, uploadVars>>

\* sendTimezoneToServer's promise is rejected: !response.ok throws,
\* response.json() rejects, fetch rejects; the catch re-throws.
TzRejected == tzReq # "ok"

\* The handler resumes after the await: with a fulfilled promise it runs the
\* inits, with a rejected one the await throws and the handler ends.
HandlerResume ==
    /\ pc = "await_tz"
    /\ tzReq \in TzOutcomes
    /\ IF TzRejected
       THEN /\ pc' = "rejected"
            /\ UNCHANGED <<searchInit, themeInit, notifInit, langState, themeVars>>
            /\ UNCHANGED notifVars
       ELSE RunInits
    /\ UNCHANGED <<tzReq, themeElems, uaTouch, viewport>>
    /\ UNCHANGED <<toggleVars, uploadVars>>

\* How the fetch of translations.json ends: a JSON object with an entry for
\* the language applied (the stored one, else "pt"), a JSON object without
\* one, or no translations (non-OK status, network error, body not JSON).
LangOutcomes == {"ok", "no_language", "failed"}

\* initLanguage() after loadTranslations() settles.  Without translations
\* the function returns.  With them applyClientLanguage(stored) runs: when
\* CLIENT_T has no entry for the language, CLIENT_T[lang].switch_theme (or
\* .search_notes, .remind_at) throws as soon as the page has one of
\* #theme-switch, #search, label[for='reminder_at'] (texts); initLanguage
\* rejects and so does the handler that awaits it.
LangSettle(o, texts) ==
    /\ pc = "await_lang"
    /\ langState = "loading"
    /\ themeElems => texts
    /\ IF o = "no_language" /\ texts
       THEN /\ langState' = "threw"
            /\ pc' = "rejected"
       ELSE /\ langState' = (IF o = "failed" THEN "failed" ELSE "applied")
            /\ pc' = "done"
    /\ UNCHANGED <<tzReq, searchInit, themeInit, notifInit, themeElems, uaTouch,
                   viewport, themeVars>>
    /\ UNCHANGED <<notifVars, toggleVars, uploadVars>>

(***************************************************************************)
(* Specification of script.js's startup and themes                         *)
(***************************************************************************)
ScriptInit ==
    /\ ScriptIdle
    /\ themeElems \in BOOLEAN
    /\ uaTouch \in BOOLEAN
    /\ viewport \in Viewports
    /\ themeStored \in StoredThemeValues
    /\ NotifIdle("stream")
    /\ ToggleIdle
    /\ toggleElems = FALSE /\ searchElem = FALSE
    /\ activeDisplay = "" /\ completedDisplay = ""
    /\ UploadIdle

\* initNotifications creates the first EventSource here; the events of the
\* stream are explored in ConnSpec and StreamSpec.
ScriptNext ==
    \/ DOMContentLoaded
    \/ \E o \in TzOutcomes : TzSettle(o)
    \/ HandlerResume
    \/ \E o \in LangOutcomes, texts \in BOOLEAN : LangSettle(o, texts)
    \/ ThemeClick
    \/ \E v \in Viewports : Resize(v)

ScriptSpec == ScriptInit /\ [][ScriptNext]_vars

\* The event loop runs every queued task: a dispatched DOMContentLoaded, a
\* settled promise's reactions.  Responses and user events are not forced: a
\* fetch has no timeout, /set_timezone or translations.json may stay
\* unanswered.
FairScript ==
    /\ ScriptSpec
    /\ WF_vars(DOMContentLoaded)
    /\ WF_vars(HandlerResume)

TzSettled == tzReq \in TzOutcomes

AnyInitStarted ==
    searchInit \/ themeInit # "none" \/ notifInit \/ langState # "none"

\* All four init functions have run; initLanguage as far as its request
\* (whether it goes on depends on a response that may never come).
AllInitialized ==
    searchInit /\ themeInit # "none" /\ notifInit /\ langState # "none"

\* C9: the POST /set_timezone is issued first, and none of initSearch,
\* initTheme, initNotifications, initLanguage starts before it has completed.
C9_InitsAfterTimezone == AnyInitStarted => TzSettled

C9_Witness == searchInit /\ themeInit = "wired" /\ notifInit /\ langState = "loading" /\ tzReq = "ok"

\* C10: once the /set_timezone request has settled (success, non-OK status
\* or network error) search, theme, notifications and language are all
\* eventually initialized.
C10_StartupCompletes == TzSettled ~> AllInitialized

\* C7: the stored themeName is one of the defined themes and the theme
\* link's href is that theme's mobile stylesheet if the device check was
\* true at the last apply, its desktop stylesheet otherwise.
C7_ThemeState ==
    themeInit = "wired" =>
        /\ themeStored \in ThemeNames
        /\ themeHref = themes[themeStored][IF appliedMobile THEN "mobile" ELSE "desktop"]

(***************************************************************************)
(* Reminder notifications: receipt of reminders                            *)
(***************************************************************************)
\* Lists of reminder ids a message or a poll response may carry.
Batches == UNION {[1..n -> ReminderIds] : n \in 0..MaxBatch}

Count(i, data) == Cardinality({k \in DOMAIN data : data[k] = i})

\* The record of one showPopup(noteId, ...) call whose template is loading,
\* made in the same forEach step as the POST /reminded/<id> of the receipt.
NewDelivery(id, granted) ==
    [id |-> id,
     notified |-> granted,   \* a browser Notification was created with it
     tmpl |-> "loading",     \* fetch of popup_partial.html: loading | shown | failed
     inDoc |-> FALSE,        \* the popup element is in document.body
     wired |-> "none",       \* buttons with an onclick: none | dismiss | both
     timer |-> FALSE,        \* its setTimeout(closePopup, 120000) is pending
     doneWait |-> 0,         \* Mark-done chains awaiting POST /done/<id>
     remWait |-> 0,          \* Mark-done chains awaiting POST /reminded/<id>
     doneSent |-> 0,         \* POST /done/<id> sent from this popup
     remSent |-> 1,          \* POST /reminded/<id> sent for this delivery
     remAfterFail |-> 0]     \* of those, sent by a chain whose /done was not OK

\* reminders.forEach: per reminder a Notification (permission granted), a
\* showPopup call and a POST /reminded/<id> that nothing awaits.
ReceiveReminders(data) ==
    LET granted == notifPerm = "granted"
    IN  /\ deliveries' = deliveries \o [k \in 1..Len(data) |-> NewDelivery(data[k], granted)]
        /\ notifs' = [i \in ReminderIds |->
                        notifs[i] + (IF granted THEN Count(i, data) ELSE 0)]
        /\ remInFlight' = [i \in ReminderIds |-> remInFlight[i] + Count(i, data)]

(***************************************************************************)
(* script.js: the EventSource of setupNotifications                        *)
(***************************************************************************)
Unclosed == {i \in DOMAIN sources : sources[i] # "closed"}

\* initNotifications() as a step of its own (StreamSpec starts before it).
InitNotifications ==
    /\ ~notifInit
    /\ initNotificationsStream
    /\ UNCHANGED <<pc, tzReq, searchInit, themeInit, langState, themeElems,
                   uaTouch, viewport, themeVars>>
    /\ UNCHANGED <<toggleVars, uploadVars>>

\* The user answers (or closes) the permission prompt.
PermissionAnswer(p) ==
    /\ permAsked
    /\ permAsked' = FALSE
    /\ notifPerm' = p
    /\ UNCHANGED <<variant, esSupported, sources, reconnectTimers, deliveries,
                   remInFlight, serverReminded, notifs, pollInterval, pollsIssued, failedAt,
                   pollReqs, pollResps>>
    /\ UNCHANGED <<scriptVars, toggleVars, uploadVars>>

\* eventSource.onopen
ESOpen(i) ==
    /\ sources[i] = "connecting"
    /\ sources' = [sources EXCEPT ![i] = "open"]
    /\ UNCHANGED <<variant, esSupported, reconnectTimers, notifPerm, permAsked,
                   deliveries, remInFlight, serverReminded, notifs, pollInterval,
                   pollsIssued, failedAt, pollReqs, pollResps>>
    /\ UNCHANGED <<scriptVars, toggleVars, uploadVars>>

MessageTypes == {"connected", "heartbeat", "reminders", "error", "other"}

\* eventSource.onmessage with a message of type t carrying data
ESMessage(i, t, data) ==
    /\ sources[i] = "open"
    /\ t = "reminders" \/ data = << >>
    /\ Len(deliveries) + Len(data) <= MaxDeliveries
    /\ IF t = "reminders"
       THEN ReceiveReminders(data)
       ELSE UNCHANGED <<deliveries, notifs, remInFlight>>
    /\ UNCHANGED <<variant, esSupported, sources, reconnectTimers, notifPerm,
                   permAsked, serverReminded, pollInterval, pollsIssued, failedAt, pollReqs,
                   pollResps>>
    /\ UNCHANGED <<scriptVars, toggleVars, uploadVars>>

\* Mutant of onerror: the failed source is not closed before the reconnect
\* timer is set.
ESErrorNoClose(i) ==
    /\ sources[i] # "closed"
    /\ reconnectTimers' = reconnectTimers + 1
    /\ UNCHANGED <<variant, esSupported, sources, notifPerm, permAsked, deliveries,
                   remInFlight, serverReminded, notifs, pollInterval, pollsIssued, failedAt,
                   pollReqs, pollResps>>
    /\ UNCHANGED <<scriptVars, toggleVars, uploadVars>>

\* Mutant of onerror: the failed source is closed but no reconnect timer is
\* set.
ESErrorNoRetry(i) ==
    /\ sources[i] # "closed"
    /\ sources' = [sources EXCEPT ![i] = "closed"]
    /\ UNCHANGED <<variant, esSupported, reconnectTimers, notifPerm, permAsked,
                   deliveries, remInFlight, serverReminded, notifs, pollInterval,
                   pollsIssued, failedAt, pollReqs, pollResps>>
    /\ UNCHANGED <<scriptVars, toggleVars, uploadVars>>

\* eventSource.onerror: close() and setTimeout(setupNotifications, 5000).
\* A closed source dispatches no further events.
ESError(i) ==
    /\ sources[i] # "closed"
    /\ sources' = [sources EXCEPT ![i] = "closed"]
    /\ reconnectTimers' = reconnectTimers + 1
    /\ UNCHANGED <<variant, esSupported, notifPerm, permAsked, deliveries,
                   remInFlight, serverReminded, notifs, pollInterval, pollsIssued, failedAt,
                   pollReqs, pollResps>>
    /\ UNCHANGED <<scriptVars, toggleVars, uploadVars>>

\* The 5-second timer fires: setupNotifications()
Reconnect ==
    /\ reconnectTimers > 0
    /\ Len(sources) < MaxSources
    /\ reconnectTimers' = reconnectTimers - 1
    /\ setupNotifications
    /\ UNCHANGED <<variant, esSupported, notifPerm, permAsked, deliveries,
                   remInFlight, serverReminded, notifs, pollInterval, pollsIssued, failedAt,
                   pollReqs, pollResps>>
    /\ UNCHANGED <<scriptVars, toggleVars, uploadVars>>

(***************************************************************************)
(* Specification of the connection of the streaming variant                *)
(***************************************************************************)
StreamInit ==
    /\ ScriptIdle
    /\ themeElems = FALSE /\ uaTouch = FALSE /\ viewport = <<1280, 720>>
    /\ themeStored = Absent
    /\ NotifIdle("stream")
    /\ ToggleIdle
    /\ toggleElems = FALSE /\ searchElem = FALSE
    /\ activeDisplay = "" /\ completedDisplay = ""
    /\ UploadIdle

ConnNext ==
    \/ InitNotifications
    \/ \E p \in {"default", "granted", "denied"} : PermissionAnswer(p)
    \/ \E i \in DOMAIN sources : ESOpen(i)
    \/ \E i \in DOMAIN sources, t \in MessageTypes, data \in Batches : ESMessage(i, t, data)
    \/ \E i \in DOMAIN sources : ESError(i)
    \/ Reconnect

ConnSpec == StreamInit /\ [][ConnNext]_vars

\* C2: at most one EventSource that has not been closed, at most one pending
\* reconnect timer, and never an un-closed EventSource together with a
\* pending reconnect timer.
C2_OneConnection ==
    /\ Cardinality(Unclosed) <= 1
    /\ reconnectTimers <= 1
    /\ ~(Unclosed # {} /\ reconnectTimers > 0)

C2_Witness ==
    /\ Len(sources) >= 3
    /\ sources[1] = "closed" /\ sources[2] = "closed" /\ sources[3] = "open"
    /\ reconnectTimers = 0
    /\ Len(deliveries) > 0

\* Timers that are due fire: the event loop runs the reconnect callback.
FairConn == ConnSpec /\ WF_vars(Reconnect)

\* C12: whenever an EventSource reports an error it is closed and a
\* reconnect timer is set, and every connection error is eventually followed
\* by a new connection attempt, at every retry (up to MaxSources sources).
C12_Reconnects ==
    /\ [][\A i \in DOMAIN sources :
            (sources[i] # "closed" /\ sources'[i] = "closed")
                => reconnectTimers' = reconnectTimers + 1]_vars
    /\ \A n \in 1..(MaxSources - 1) :
            (Len(sources) = n /\ sources[n] = "closed") ~> (Len(sources) = n + 1)

C12_Witness ==
    /\ Len(sources) = 2
    /\ sources[1] = "closed"
    /\ sources[2] = "connecting"
    /\ reconnectTimers = 0

(***************************************************************************)
(* showPopup: the popup's life (both variants)                             *)
(***************************************************************************)
FetchOutcomes == {"ok", "http_error", "network_error"}

\* The promise returned for a POST is rejected: safeFetch (script.js) throws
\* on a non-OK status, the plain fetch of part_000 rejects on network errors
\* only.
RequestRejected(o) ==
    IF variant = "stream" THEN o # "ok" ELSE o = "network_error"

popupRest == <<variant, esSupported, sources, reconnectTimers, notifPerm,
               permAsked, notifs, pollInterval, pollsIssued, failedAt, pollReqs, pollResps>>

\* popup_partial.html arrives with a .reminder-popup element that has
\* #popup-title, #popup-content, .dismiss and .mark-done: the popup is
\* filled, appended to document.body, its buttons are wired and the 2-minute
\* timer is set.
TemplateLoaded(k) ==
    /\ deliveries[k].tmpl = "loading"
    /\ deliveries' = [deliveries EXCEPT ![k].tmpl = "shown",
                                        ![k].inDoc = TRUE,
                                        ![k].wired = "both",
                                        ![k].timer = TRUE]
    /\ UNCHANGED <<popupRest, remInFlight, serverReminded>>
    /\ UNCHANGED <<scriptVars, toggleVars, uploadVars>>

\* The template fetch rejects, or its text has no .reminder-popup element,
\* or that element has no #popup-title or no #popup-content: a statement
\* before appendChild throws and the catch logs.
TemplateFailed(k) ==
    /\ deliveries[k].tmpl = "loading"
    /\ deliveries' = [deliveries EXCEPT ![k].tmpl = "failed"]
    /\ UNCHANGED <<popupRest, remInFlight, serverReminded>>
    /\ UNCHANGED <<scriptVars, toggleVars, uploadVars>>

\* What a template that lacks a button leaves wired: without .dismiss
\* nothing, without .mark-done the dismiss button.
IncompleteWirings == {"none", "dismiss"}

\* The template's .reminder-popup lacks .dismiss or .mark-done: the popup
\* has been appended when popup.querySelector(...).onclick = ... throws on
\* null; the catch logs, setTimeout(closePopup, 120000) is never reached.
TemplateIncomplete(k, w) ==
    /\ deliveries[k].tmpl = "loading"
    /\ deliveries' = [deliveries EXCEPT ![k].tmpl = "failed",
                                        ![k].inDoc = TRUE,
                                        ![k].wired = w]
    /\ UNCHANGED <<popupRest, remInFlight, serverReminded>>
    /\ UNCHANGED <<scriptVars, toggleVars, uploadVars>>

\* .dismiss onclick: POST /reminded/<id> (not awaited), closePopup()
Dismiss(k) ==
    /\ deliveries[k].inDoc
    /\ deliveries[k].wired \in {"dismiss", "both"}
    /\ deliveries' = [deliveries EXCEPT ![k].inDoc = FALSE,
                                        ![k].remSent = @ + 1]
    /\ remInFlight' = [remInFlight EXCEPT ![deliveries[k].id] = @ + 1]
    /\ UNCHANGED <<popupRest, serverReminded>>
    /\ UNCHANGED <<scriptVars, toggleVars, uploadVars>>

\* .mark-done onclick: POST /done/<id>, the rest of the chain waits for it
MarkDone(k) ==
    /\ deliveries[k].inDoc
    /\ deliveries[k].wired = "both"
    /\ deliveries[k].doneSent < MaxClicks
    /\ deliveries' = [deliveries EXCEPT ![k].doneSent = @ + 1,
                                        ![k].doneWait = @ + 1]
    /\ UNCHANGED <<popupRest, remInFlight, serverReminded>>
    /\ UNCHANGED <<scriptVars, toggleVars, uploadVars>>

\* A POST /done/<id> of popup k settles with outcome o: fulfilled, the chain
\* sends POST /reminded/<id>; rejected, catch logs and finally closes.
DoneSettle(k, o) ==
    /\ deliveries[k].doneWait > 0
    /\ deliveries' =
          IF RequestRejected(o)
          THEN [deliveries EXCEPT ![k].doneWait = @ - 1,
                                  ![k].inDoc = FALSE]
          ELSE [deliveries EXCEPT ![k].doneWait = @ - 1,
                                  ![k].remWait = @ + 1,
                                  ![k].remSent = @ + 1,
                                  ![k].remAfterFail = @ + (IF o = "ok" THEN 0 ELSE 1)]
    /\ UNCHANGED <<popupRest, remInFlight, serverReminded>>
    /\ UNCHANGED <<scriptVars, toggleVars, uploadVars>>

\* The POST /reminded/<id> of a Mark-done chain settles: finally(closePopup)
ChainRemindedSettle(k, o) ==
    /\ deliveries[k].remWait > 0
    /\ deliveries' = [deliveries EXCEPT ![k].remWait = @ - 1,
                                        ![k].inDoc = FALSE]
    /\ serverReminded' = IF o = "ok" THEN serverReminded \cup {deliveries[k].id}
                                     ELSE serverReminded
    /\ UNCHANGED <<popupRest, remInFlight>>
    /\ UNCHANGED <<scriptVars, toggleVars, uploadVars>>

\* The 2-minute timer fires: closePopup()
AutoClose(k) ==
    /\ deliveries[k].timer
    /\ deliveries' = [deliveries EXCEPT ![k].timer = FALSE,
                                        ![k].inDoc = FALSE]
    /\ UNCHANGED <<popupRest, remInFlight, serverReminded>>
    /\ UNCHANGED <<scriptVars, toggleVars, uploadVars>>

(***************************************************************************)
(* The backend's side of the not-awaited POST /reminded/<id>               *)
(***************************************************************************)
\* The backend processes a POST /reminded/<id>.
RemindedProcessed(id) ==
    /\ remInFlight[id] > 0
    /\ remInFlight' = [remInFlight EXCEPT ![id] = @ - 1]
    /\ serverReminded' = serverReminded \cup {id}
    /\ UNCHANGED <<popupRest, deliveries>>
    /\ UNCHANGED <<scriptVars, toggleVars, uploadVars>>

\* A POST /reminded/<id> fails before the backend processes it.
RemindedFailed(id) ==
    /\ remInFlight[id] > 0
    /\ remInFlight' = [remInFlight EXCEPT ![id] = @ - 1]
    /\ UNCHANGED <<popupRest, deliveries, serverReminded>>
    /\ UNCHANGED <<scriptVars, toggleVars, uploadVars>>

PopupNext ==
    \/ \E k \in DOMAIN deliveries : TemplateLoaded(k)
    \/ \E k \in DOMAIN deliveries : TemplateFailed(k)
    \/ \E k \in DOMAIN deliveries, w \in IncompleteWirings : TemplateIncomplete(k, w)
    \/ \E k \in DOMAIN deliveries : Dismiss(k)
    \/ \E k \in DOMAIN deliveries : MarkDone(k)
    \/ \E k \in DOMAIN deliveries, o \in FetchOutcomes : DoneSettle(k, o)
    \/ \E k \in DOMAIN deliveries, o \in FetchOutcomes : ChainRemindedSettle(k, o)
    \/ \E k \in DOMAIN deliveries : AutoClose(k)

(***************************************************************************)
(* Specification of the streaming variant with its popups                  *)
(***************************************************************************)
\* Nothing in the streaming client awaits the not-awaited POST /reminded or
\* reads the backend's state: remInFlight only counts what was sent.
StreamNext == ConnNext \/ PopupNext

StreamSpec == StreamInit /\ [][StreamNext]_vars

\* C3: every pending 2-minute auto-close timer belongs to a popup that is
\* still in the document (none remains once Dismiss or Mark-done removed it).
C3_TimersCleanedUp ==
    \A k \in DOMAIN deliveries : deliveries[k].timer => deliveries[k].inDoc

\* C4: at most one POST /done/<id> is sent for one popup, however many times
\* Mark-done is clicked before the popup is removed.
C4_OneDonePerPopup ==
    \A k \in DOMAIN deliveries : deliveries[k].doneSent <= 1

\* C6: for one reminder delivered in one 'reminders' message at most one
\* POST /reminded/<id> is sent over the whole lifetime of its popup.
C6_OneRemindedPerDelivery ==
    \A k \in DOMAIN deliveries : deliveries[k].remSent <= 1

\* The 2-minute timers fire when due; no request is required to settle.
FairStream ==
    /\ StreamSpec
    /\ \A k \in 1..MaxDeliveries : WF_vars(k \in DOMAIN deliveries /\ AutoClose(k))

\* C13: every reminder popup appended to the document is eventually removed:
\* at once by Dismiss, when the request chain of a Mark-done settles, and
\* otherwise by the auto-close timer, even if a Mark-done request never
\* settles.
C13_PopupRemoved ==
    /\ [][\A k \in DOMAIN deliveries :
            (Dismiss(k) \/ AutoClose(k)
               \/ (\E o \in FetchOutcomes : ChainRemindedSettle(k, o))
               \/ (\E o \in FetchOutcomes : RequestRejected(o) /\ DoneSettle(k, o)))
                => ~deliveries'[k].inDoc]_vars
    /\ \A k \in 1..MaxDeliveries :
            (k \in DOMAIN deliveries /\ deliveries[k].inDoc)
                ~> (k \in DOMAIN deliveries /\ ~deliveries[k].inDoc)

\* C15: a reminder whose popup template failed to load and for which no
\* browser notification was shown has had no POST /reminded/<id> sent on
\* its receipt.
C15_NoSilentConsume ==
    \A k \in DOMAIN deliveries :
        (deliveries[k].tmpl = "failed" /\ ~deliveries[k].inDoc
            /\ ~deliveries[k].notified)
            => deliveries[k].remSent = 0

(***************************************************************************)
(* part_000: initNotifications (polling variant)                           *)
(***************************************************************************)
pollRest == <<variant, esSupported, sources, reconnectTimers>>

\* checkForReminders(): fetch('/get_reminders')
checkForReminders ==
    /\ pollsIssued' = pollsIssued + 1
    /\ pollReqs' = pollReqs + 1

\* initNotifications() of part_000: asks for the permission when it is
\* "default", installs the 60-second interval and checks once at once.
InitNotificationsPoll ==
    /\ ~notifInit
    /\ notifInit' = TRUE
    /\ requestNotificationPermission
    /\ pollInterval' = TRUE
    /\ checkForReminders
    /\ UNCHANGED <<pollRest, notifPerm, deliveries, remInFlight, serverReminded,
                   notifs, pollResps, failedAt>>
    /\ UNCHANGED <<pc, tzReq, searchInit, themeInit, langState, themeElems,
                   uaTouch, viewport, themeVars>>
    /\ UNCHANGED <<toggleVars, uploadVars>>

\* The 60-second interval fires: checkForReminders()
PollTick ==
    /\ pollInterval
    /\ pollsIssued < MaxPolls
    /\ checkForReminders
    /\ UNCHANGED <<pollRest, notifPerm, permAsked, deliveries, remInFlight,
                   serverReminded, notifs, pollInterval, pollResps, failedAt>>
    /\ UNCHANGED <<scriptVars, toggleVars, uploadVars>>

\* The list of the ids in S, ascending.
RECURSIVE ListOf(_)
ListOf(S) ==
    IF S = {} THEN << >>
    ELSE LET m == CHOOSE x \in S : \A y \in S : x <= y
         IN  <<m>> \o ListOf(S \ {m})

\* The backend answers a GET /get_reminders: every reminder is due, and a due
\* reminder is returned until a POST /reminded/<id> for it has been processed.
BackendPoll ==
    /\ pollReqs > 0
    /\ pollReqs' = pollReqs - 1
    /\ pollResps' = Append(pollResps, ListOf(ReminderIds \ serverReminded))
    /\ UNCHANGED <<pollRest, notifPerm, permAsked, deliveries, remInFlight,
                   serverReminded, notifs, pollInterval, pollsIssued, failedAt>>
    /\ UNCHANGED <<scriptVars, toggleVars, uploadVars>>

\* The same handler, had the failure also cancelled the interval.
PollFailedStopsPolling ==
    /\ pollReqs > 0
    /\ pollReqs' = pollReqs - 1
    /\ failedAt' = pollsIssued
    /\ pollInterval' = FALSE
    /\ UNCHANGED <<pollRest, notifPerm, permAsked, deliveries, remInFlight,
                   serverReminded, notifs, pollsIssued, pollResps>>
    /\ UNCHANGED <<scriptVars, toggleVars, uploadVars>>

\* A poll fails: fetch rejects, or the body is not JSON; the catch logs.
PollFailed ==
    /\ pollReqs > 0
    /\ pollReqs' = pollReqs - 1
    /\ failedAt' = pollsIssued
    /\ UNCHANGED <<pollRest, notifPerm, permAsked, deliveries, remInFlight,
                   serverReminded, notifs, pollInterval, pollsIssued, pollResps>>
    /\ UNCHANGED <<scriptVars, toggleVars, uploadVars>>

Remove(seq, k) == [j \in 1..(Len(seq) - 1) |-> IF j < k THEN seq[j] ELSE seq[j + 1]]

\* The response of a poll is handled: reminders.forEach(...)
PollResponse(k) ==
    /\ k \in DOMAIN pollResps
    /\ Len(deliveries) + Len(pollResps[k]) <= MaxDeliveries
    /\ ReceiveReminders(pollResps[k])
    /\ pollResps' = Remove(pollResps, k)
    /\ UNCHANGED <<pollRest, notifPerm, permAsked, serverReminded, pollInterval,
                   pollsIssued, failedAt, pollReqs>>
    /\ UNCHANGED <<scriptVars, toggleVars, uploadVars>>

(***************************************************************************)
(* Specification of the polling variant with its popups and the backend    *)
(***************************************************************************)
PollInit ==
    /\ ScriptIdle
    /\ themeElems = FALSE /\ uaTouch = FALSE /\ viewport = <<1280, 720>>
    /\ themeStored = Absent
    /\ NotifIdle("poll")
    /\ esSupported = TRUE
    /\ ToggleIdle
    /\ toggleElems = FALSE /\ searchElem = FALSE
    /\ activeDisplay = "" /\ completedDisplay = ""
    /\ UploadIdle

PollNext ==
    \/ InitNotificationsPoll
    \/ \E p \in {"default", "granted", "denied"} : PermissionAnswer(p)
    \/ PollTick
    \/ BackendPoll
    \/ PollFailed
    \/ \E k \in DOMAIN pollResps : PollResponse(k)
    \/ \E id \in ReminderIds : RemindedProcessed(id)
    \/ \E id \in ReminderIds : RemindedFailed(id)
    \/ PopupNext

PollSpec == PollInit /\ [][PollNext]_vars

(***************************************************************************)
(* Specification of the polling alone: the interval, the requests, the     *)
(* backend and the receipt of the reminders, without the popups' buttons   *)
(***************************************************************************)
PollCoreNext ==
    \/ InitNotificationsPoll
    \/ \E p \in {"default", "granted", "denied"} : PermissionAnswer(p)
    \/ PollTick
    \/ BackendPoll
    \/ PollFailed
    \/ \E k \in DOMAIN pollResps : PollResponse(k)
    \/ \E id \in ReminderIds : RemindedProcessed(id)
    \/ \E id \in ReminderIds : RemindedFailed(id)

PollCoreSpec == PollInit /\ [][PollCoreNext]_vars

\* The page is loaded and its interval fires when due.
FairPoll == PollCoreSpec /\ WF_vars(InitNotificationsPoll) /\ WF_vars(PollTick)

\* C14: the polling variant checks once at page load and installs the
\* interval; a poll that fails creates no popup, sends no /reminded request
\* and leaves the interval installed; after a failed poll a further poll is
\* issued (up to MaxPolls polls).
C14_PollingSurvivesFailure ==
    /\ [](notifInit => (pollInterval /\ pollsIssued >= 1))
    /\ [][(pollReqs' = pollReqs - 1 /\ pollResps' = pollResps)
            => (/\ deliveries' = deliveries
                /\ remInFlight' = remInFlight
                /\ notifs' = notifs
                /\ pollInterval' = pollInterval)]_vars
    /\ \A n \in 1..(MaxPolls - 1) :
            (failedAt = n /\ pollsIssued = n) ~> (pollsIssued = n + 1)
    /\ (~notifInit) ~> (pollsIssued >= 1)

C14_Witness ==
    /\ failedAt = 1
    /\ pollsIssued = 2
    /\ pollReqs = 1
    /\ deliveries = << >>
    /\ \A id \in ReminderIds : remInFlight[id] = 0

\* document.body.appendChild(popup) has run for delivery d: the template was
\* complete, or it lacked a button and the throw came after the append (such
\* a popup is still in the document, or its dismiss button removed it).
Appended(d) ==
    \/ d.tmpl = "shown"
    \/ d.tmpl = "failed" /\ (d.inDoc \/ d.wired # "none")

\* Popups ever appended to the document for reminder id.
PopupsCreated(id) ==
    Cardinality({k \in DOMAIN deliveries :
                    deliveries[k].id = id /\ Appended(deliveries[k])})

\* C1: over any interleaving of the polls, their responses and the /reminded
\* requests, at most one popup and at most one browser notification is ever
\* created for a given reminder id.
C1_NoDoubleFire ==
    \A id \in ReminderIds : PopupsCreated(id) <= 1 /\ notifs[id] <= 1

\* C11: after a Mark-done click POST /reminded/<id> is sent only after POST
\* /done/<id> completed with an OK response; a click whose /done failed with
\* a network error or a non-OK status sends no /reminded (both variants).
C11_RemindedOnlyAfterDoneOk ==
    \A k \in DOMAIN deliveries : deliveries[k].remAfterFail = 0

(***************************************************************************)
(* part_000: initNoteToggle and initSearch                                 *)
(***************************************************************************)
\* toggleBtn.getAttribute("data-view-active") / ("data-view-completed")
viewActiveText == "data-view-active"
viewCompletedText == "data-view-completed"

toggleRest == <<toggleElems, searchElem, searchReqs, activeHtml, completedHtml,
               searchHist>>

\* Mutant of switchView: the search box is not cleared.
switchViewKeepsSearch ==
    /\ showingCompleted' = ~showingCompleted
    /\ IF showingCompleted'
       THEN /\ activeDisplay' = "none"
            /\ completedDisplay' = "block"
            /\ toggleText' = viewActiveText
       ELSE /\ activeDisplay' = "block"
            /\ completedDisplay' = "none"
            /\ toggleText' = viewCompletedText
    /\ UNCHANGED searchValue

\* switchView(); without a #search element its last statement throws, after
\* the view has been switched.
switchView ==
    /\ showingCompleted' = ~showingCompleted
    /\ IF showingCompleted'
       THEN /\ activeDisplay' = "none"
            /\ completedDisplay' = "block"
            /\ toggleText' = viewActiveText
       ELSE /\ activeDisplay' = "block"
            /\ completedDisplay' = "none"
            /\ toggleText' = viewCompletedText
    /\ searchValue' = (IF searchElem THEN "" ELSE searchValue)

\* click on #toggle-notes-btn (wired only when initNoteToggle found it)
ToggleClick ==
    /\ toggleElems
    /\ clicks < MaxToggleClicks
    /\ switchView
    /\ clicks' = clicks + 1
    /\ lastEvent' = "toggle"
    /\ UNCHANGED toggleRest
    /\ UNCHANGED <<scriptVars, notifVars, uploadVars>>

\* input event on #search after the user made its value q: the request
\* carries the query and whether the completed container's inline display
\* is anything but "none".
SearchInput(q) ==
    /\ searchElem
    /\ q # searchValue
    /\ Len(searchReqs) < MaxSearches
    /\ searchValue' = q
    /\ LET isCompletedView == completedDisplay # "none"
           request == [q |-> q, completed |-> isCompletedView]
       IN  /\ searchReqs' = Append(searchReqs, request)
           /\ searchHist' = [searchHist EXCEPT !.last = request, !.pending = TRUE,
                                               !.ok = FALSE]
    /\ lastEvent' = "input"
    /\ UNCHANGED <<toggleElems, searchElem, showingCompleted, activeDisplay,
                   completedDisplay, toggleText, clicks, activeHtml, completedHtml>>
    /\ UNCHANGED <<scriptVars, notifVars, uploadVars>>

\* The same handler, had it written every response into the active
\* container whatever view the request was made for.
SearchResponseOneContainer(k, ok) ==
    /\ k \in DOMAIN searchReqs
    /\ searchReqs' = Remove(searchReqs, k)
    /\ UNCHANGED completedHtml
    /\ IF ok
       THEN activeHtml' = searchReqs[k]
       ELSE UNCHANGED activeHtml
    /\ searchHist' = [searchHist EXCEPT
            !.pending = @ /\ k # Len(searchReqs),
            !.ok = IF searchHist.pending /\ k = Len(searchReqs) THEN ok ELSE @,
            !.fifo = @ /\ k = 1]
    /\ lastEvent' = "response"
    /\ UNCHANGED <<toggleElems, searchElem, showingCompleted, activeDisplay,
                   completedDisplay, toggleText, searchValue, clicks>>
    /\ UNCHANGED <<scriptVars, notifVars, uploadVars>>

\* The response of request k arrives: an OK response's text is written into
\* the container the request was made for, anything else is logged.
SearchResponse(k, ok) ==
    /\ k \in DOMAIN searchReqs
    /\ searchReqs' = Remove(searchReqs, k)
    /\ IF ok /\ searchReqs[k].completed
       THEN completedHtml' = searchReqs[k]
       ELSE UNCHANGED completedHtml
    /\ IF ok /\ ~searchReqs[k].completed
       THEN activeHtml' = searchReqs[k]
       ELSE UNCHANGED activeHtml
    /\ searchHist' = [searchHist EXCEPT
            !.pending = @ /\ k # Len(searchReqs),
            !.ok = IF searchHist.pending /\ k = Len(searchReqs) THEN ok ELSE @,
            !.fifo = @ /\ k = 1]
    /\ lastEvent' = "response"
    /\ UNCHANGED <<toggleElems, searchElem, showingCompleted, activeDisplay,
                   completedDisplay, toggleText, searchValue, clicks>>
    /\ UNCHANGED <<scriptVars, notifVars, uploadVars>>

(***************************************************************************)
(* Specification of the view toggle and the search box of part_000         *)
(***************************************************************************)
ToggleInit ==
    /\ ScriptIdle
    /\ themeElems = FALSE /\ uaTouch = FALSE /\ viewport = <<1280, 720>>
    /\ themeStored = Absent
    /\ NotifIdle("poll")
    /\ esSupported = TRUE /\ notifPerm = "default"
    /\ toggleElems \in BOOLEAN
    /\ searchElem \in BOOLEAN
    /\ activeDisplay \in {"", "block"}       \* the template's inline styles
    /\ completedDisplay \in {"", "none"}
    /\ ToggleIdle
    /\ UploadIdle

ToggleNext ==
    \/ ToggleClick
    \/ \E q \in Queries : SearchInput(q)
    \/ \E k \in DOMAIN searchReqs, ok \in BOOLEAN : SearchResponse(k, ok)

ToggleSpec == ToggleInit /\ [][ToggleNext]_vars

\* C8: after n >= 1 clicks on the toggle button exactly one of the two
\* containers is displayed (the completed one iff n is odd), the button
\* label is the 'view active' text iff the completed view is shown and the
\* 'view completed' text otherwise, and the search input's value is empty
\* immediately after each switch.
C8_ViewToggle ==
    clicks >= 1 =>
        /\ \/ activeDisplay = "block" /\ completedDisplay = "none"
           \/ activeDisplay = "none" /\ completedDisplay = "block"
        /\ completedDisplay = "block" <=> clicks % 2 = 1
        /\ toggleText = (IF completedDisplay = "block" THEN viewActiveText
                                                       ELSE viewCompletedText)
        /\ (lastEvent = "toggle" /\ searchElem) => searchValue = ""

C8_Witness ==
    /\ clicks = 3
    /\ lastEvent = "toggle"
    /\ searchElem
    /\ completedDisplay = "block"
    /\ \E k \in DOMAIN searchReqs : searchReqs[k].q # ""

\* C16 as stated: once no search request is in flight, the container of the
\* newest request shows the result of that request (its response was OK),
\* in whatever order the responses arrived.
C16_LatestQueryShown ==
    (searchReqs = << >> /\ searchHist.last # NoHtml /\ searchHist.ok)
        => containerHtml(searchHist.last.completed) = searchHist.last

\* C16 as amended: the same, when the responses were handled in the order
\* the requests were sent.
C16_LatestQueryShownInOrder ==
    (searchReqs = << >> /\ searchHist.last # NoHtml /\ searchHist.ok
        /\ searchHist.fifo)
        => containerHtml(searchHist.last.completed) = searchHist.last

\* Two requests for the completed view answered in order, the newer shown.
C16_Witness ==
    /\ searchReqs = << >>
    /\ searchHist.fifo /\ searchHist.ok
    /\ searchHist.last = [q |-> "b", completed |-> TRUE]
    /\ completedHtml = searchHist.last
    /\ activeHtml = [q |-> "a", completed |-> FALSE]
    /\ clicks = 1

\* C17: at every input event the request's completed parameter is the
\* toggle's showingCompleted at that moment.
C17_SearchFollowsToggle ==
    lastEvent = "input"
        => searchReqs[Len(searchReqs)].completed = showingCompleted

(***************************************************************************)
(* part_000: initFileUpload, file-attachment-area variant                  *)
(***************************************************************************)
UploadOutcomes == {"ok", "refused", "failed"}

\* handleFiles(files, noteId) with nfiles files: nothing for an empty list;
\* otherwise the progress container is shown and the POST is sent.
handleFiles(n, nfiles) ==
    IF nfiles = 0
    THEN UNCHANGED uploadVars
    ELSE /\ progressDisplay' = [progressDisplay EXCEPT ![n] = "block"]
         /\ progressWidth' = [progressWidth EXCEPT ![n] = "0%"]
         /\ progressText' = [progressText EXCEPT ![n] = "Uploading..."]
         /\ uploading' = [uploading EXCEPT ![n] = @ + 1]
         /\ uploadsStarted' = uploadsStarted + 1
         /\ UNCHANGED <<hideTimers, attached>>

\* drop on the drop zone of note n, or change of its file input
FilesChosen(n, nfiles) ==
    /\ uploadsStarted < MaxUploads
    /\ handleFiles(n, nfiles)
    /\ UNCHANGED <<scriptVars, notifVars, toggleVars>>

\* The POST /upload_file/n settles: "ok" is a JSON body with data.ok,
\* "refused" a JSON body without it (the then throws), "failed" a network
\* error or a body that is not JSON.  Both paths set a timer that hides the
\* progress container (1.5 s after success, 3 s after failure).
UploadSettle(n, o) ==
    /\ uploading[n] > 0
    /\ uploading' = [uploading EXCEPT ![n] = @ - 1]
    /\ IF o = "ok"
       THEN /\ progressWidth' = [progressWidth EXCEPT ![n] = "100%"]
            /\ progressText' = [progressText EXCEPT ![n] = "Upload complete!"]
            /\ attached' = [attached EXCEPT ![n] = @ + 1]
       ELSE /\ progressWidth' = [progressWidth EXCEPT ![n] = "0%"]
            /\ progressText' = [progressText EXCEPT ![n] = "Upload failed. Please try again."]
            /\ UNCHANGED attached
    /\ hideTimers' = [hideTimers EXCEPT ![n] = @ + 1]
    /\ UNCHANGED <<progressDisplay, uploadsStarted>>
    /\ UNCHANGED <<scriptVars, notifVars, toggleVars>>

\* A hide timer of note n fires: progressContainer.style.display = 'none'
HideTimerFires(n) ==
    /\ hideTimers[n] > 0
    /\ hideTimers' = [hideTimers EXCEPT ![n] = @ - 1]
    /\ progressDisplay' = [progressDisplay EXCEPT ![n] = "none"]
    /\ UNCHANGED <<progressWidth, progressText, uploading, attached, uploadsStarted>>
    /\ UNCHANGED <<scriptVars, notifVars, toggleVars>>

(***************************************************************************)
(* Specification of the file-attachment-area uploads                       *)
(***************************************************************************)
UploadInit ==
    /\ ScriptIdle
    /\ themeElems = FALSE /\ uaTouch = FALSE /\ viewport = <<1280, 720>>
    /\ themeStored = Absent
    /\ NotifIdle("poll")
    /\ esSupported = TRUE /\ notifPerm = "default"
    /\ toggleElems = FALSE /\ searchElem = FALSE
    /\ activeDisplay = "" /\ completedDisplay = ""
    /\ ToggleIdle
    /\ UploadIdle

UploadNext ==
    \/ \E n \in Notes, nfiles \in 0..2 : FilesChosen(n, nfiles)
    \/ \E n \in Notes, o \in UploadOutcomes : UploadSettle(n, o)
    \/ \E n \in Notes : HideTimerFires(n)

UploadSpec == UploadInit /\ [][UploadNext]_vars

\* C5: if an upload started by handleFiles for note N is still in flight then
\* the progress container upload-progress-N is visible (display 'block').
C5_ProgressVisible ==
    \A n \in Notes : uploading[n] > 0 => progressDisplay[n] = "block"

====
